---- MODULE Spec2Model ----
(***************************************************************************)
(* Verification model of recipe_zs2017_rnn_feats:                          *)
(*   src/src/test_tflego.py              (NumPy references and the tests)  *)
(*   src/features/fbank/get_segments_scp.py                                *)
(*   src/embeddings/train_siamese.py                                       *)
(*   src/embeddings/link_xitsonga_mfcc.py                                  *)
(* Each program is a state machine with its own specification; the         *)
(* variables of the other programs stay at their idle values.              *)
(* tflego.py and training.py are not part of the source tree: build_vq,    *)
(* build_rnn, build_multi_rnn, build_encdec_lazydynamic and                *)
(* train_fixed_epochs_external_val are modelled from the specification.    *)
(***************************************************************************)
EXTENDS Integers, Sequences, FiniteSets, TLC

VARIABLES
    \* test_vq
    vq_pc, test_data, tf_embeds, tf_z_q, np_z_q, vq_passed,
    \* test_rnn and test_multi_rnn
    rnn_pc, rnn_data, lengths, params, tf_output, np_output, rnn_passed,
    \* test_encdec_lazydynamic and test_encdec_lazydynamic_masked_loss
    tf_encoder_states, tf_decoder_output, tf_mask, tf_loss,
    np_encoder_states, np_decoder_output, np_decoder_list, np_loss,
    \* get_segments_scp.main
    seg_pc, fa_lines, n_read, segments, prev_utterance, prev_token_label,
    prev_end_time, start_time, segments_list,
    \* train_siamese.train_siamese
    train_pc, extrinsic_usefinal, n_epochs, i_epoch, val_model_fn, restored,
    saved_tmp, saved_best, best_val_loss, record_dict, ap, ap_normalised,
    val_ap_txt, ap_calls,
    \* get_segments_scp.main, writing the SCP file
    scp_pc, scp_lengths, i_segment, scp_lines, scp_warnings,
    \* link_xitsonga_mfcc.main and the file system it works on
    link_pc, link_run, output_dir, links, npz_files, created, links_first_run,
    \* train_siamese.train_siamese, training labels
    label_pc, train_labels, train_label_set, label_to_id, train_y

vqVars == <<vq_pc, test_data, tf_embeds, tf_z_q, np_z_q, vq_passed>>
rnnVars == <<rnn_pc, rnn_data, lengths, params, tf_output, np_output, rnn_passed>>

encVars == <<tf_encoder_states, tf_decoder_output, tf_mask, tf_loss,
             np_encoder_states, np_decoder_output, np_decoder_list, np_loss>>

segVars == <<seg_pc, fa_lines, n_read, segments, prev_utterance,
             prev_token_label, prev_end_time, start_time, segments_list>>

trainVars == <<train_pc, extrinsic_usefinal, n_epochs, i_epoch, val_model_fn,
               restored, saved_tmp, saved_best, best_val_loss, record_dict,
               ap, ap_normalised, val_ap_txt, ap_calls>>

scpVars == <<scp_pc, scp_lengths, i_segment, scp_lines, scp_warnings>>

linkVars == <<link_pc, link_run, output_dir, links, npz_files, created,
              links_first_run>>

labelVars == <<label_pc, train_labels, train_label_set, label_to_id, train_y>>

vars == <<vqVars, rnnVars, encVars, segVars, trainVars, scpVars, linkVars,
          labelVars>>

\* What the steps of one program leave alone: the other programs' state.
notVq == <<rnnVars, encVars, segVars, trainVars, scpVars, linkVars, labelVars>>
notRnn == <<vqVars, encVars, segVars, trainVars, scpVars, linkVars, labelVars>>
notEncDec == <<vqVars, segVars, trainVars, scpVars, linkVars, labelVars>>
notSeg == <<vqVars, rnnVars, encVars, trainVars, scpVars, linkVars, labelVars>>
notTrain == <<vqVars, rnnVars, encVars, segVars, scpVars, linkVars, labelVars>>
notScp == <<vqVars, rnnVars, encVars, trainVars, linkVars, labelVars>>
notLink == <<vqVars, rnnVars, encVars, segVars, trainVars, scpVars, labelVars>>
notLabel == <<vqVars, rnnVars, encVars, segVars, trainVars, scpVars, linkVars>>

(***************************************************************************)
(* Vector arithmetic (numpy broadcasting on rank-1 arrays).                *)
(***************************************************************************)
\* F applied to the value of v, with v evaluated a single time.
Once(v, F(_)) == CHOOSE r \in { F(u) : u \in {v} } : TRUE

RECURSIVE SumSeq(_)
SumSeq(s) == IF s = <<>> THEN 0 ELSE Head(s) + SumSeq(Tail(s))

VecSub(u, v) == [d \in 1..Len(u) |-> u[d] - v[d]]

SumSquares(u) == SumSeq([d \in 1..Len(u) |-> u[d] * u[d]])

(***************************************************************************)
(* Numbers as the decimal strings that "%06d" and str() write.             *)
(***************************************************************************)
DigitChars == <<"0", "1", "2", "3", "4", "5", "6", "7", "8", "9">>

\* The decimal digits of n >= 0, most significant first.
RECURSIVE Digits(_)
Digits(n) ==
    IF n < 10 THEN <<DigitChars[n + 1]>>
    ELSE Append(Digits(n \div 10), DigitChars[(n % 10) + 1])

RECURSIVE ZeroPad(_, _)
ZeroPad(digits, width) ==
    IF Len(digits) >= width THEN digits ELSE ZeroPad(<<"0">> \o digits, width)

\* str(n)
Str(n) == IF n < 0 THEN <<"-">> \o Digits(-n) ELSE Digits(n)

\* "%06d" % n: zero padded to six characters, the sign included.
Format06d(n) ==
    IF n < 0 THEN <<"-">> \o ZeroPad(Digits(-n), 5) ELSE ZeroPad(Digits(n), 6)

\* The number a string of decimal digits with an optional sign denotes.
RECURSIVE ParseDigits(_)
ParseDigits(digits) ==
    IF digits = <<>> THEN 0
    ELSE 10 * ParseDigits(SubSeq(digits, 1, Len(digits) - 1))
         + (CHOOSE d \in 0..9 : DigitChars[d + 1] = digits[Len(digits)])

ParseInt(chars) ==
    IF chars[1] = "-" THEN -ParseDigits(Tail(chars)) ELSE ParseDigits(chars)

RnnIdle ==
    /\ rnn_pc = "idle" /\ rnn_data = <<>> /\ lengths = <<>> /\ params = <<>>
    /\ tf_output = <<>> /\ np_output = <<>> /\ rnn_passed = FALSE

TrainIdle ==
    /\ train_pc = "idle" /\ extrinsic_usefinal = FALSE /\ n_epochs = 0
    /\ i_epoch = 0 /\ val_model_fn = "" /\ restored = <<>> /\ saved_tmp = 0
    /\ saved_best = 0 /\ best_val_loss = <<>> /\ record_dict = <<>>
    /\ ap = <<>> /\ ap_normalised = <<>> /\ val_ap_txt = <<>>
    /\ ap_calls = <<>>

LabelIdle ==
    /\ label_pc = "idle" /\ train_labels = <<>> /\ train_label_set = <<>>
    /\ label_to_id = <<>> /\ train_y = <<>>

LinkIdle ==
    /\ link_pc = "idle" /\ link_run = 0 /\ output_dir = "absent"
    /\ links = <<>> /\ npz_files = <<>> /\ created = <<>>
    /\ links_first_run = <<>>

ScpIdle ==
    /\ scp_pc = "idle" /\ scp_lengths = <<>> /\ i_segment = 0
    /\ scp_lines = <<>> /\ scp_warnings = <<>>

SegIdle ==
    /\ seg_pc = "idle" /\ fa_lines = <<>> /\ n_read = 0 /\ segments = <<>>
    /\ prev_utterance = "" /\ prev_token_label = "" /\ prev_end_time = -1
    /\ start_time = -1 /\ segments_list = <<>>

EncIdle ==
    /\ tf_encoder_states = <<>> /\ tf_decoder_output = <<>> /\ tf_mask = <<>>
    /\ tf_loss = <<>> /\ np_encoder_states = <<>> /\ np_decoder_output = <<>>
    /\ np_decoder_list = <<>> /\ np_loss = <<>>

(***************************************************************************)
(* test_vq.  np.linalg.norm(x_test - embed) is sqrt(SumSquares(...)); the  *)
(* square root is strictly increasing on the non-negative reals, so the    *)
(* order and the ties of the norms are those of the sums of squares, which *)
(* is what the comparisons below use.                                      *)
(***************************************************************************)
K == 3
VqRows == 2
\* The vectors the test data and the codebook are drawn from (D = 2).
VqVec == {<<0, 0>>, <<1, 0>>, <<0, 1>>, <<-1, 0>>, <<1, 1>>}

\* dists of the reference loop: one entry per codebook row, in order.
VqDists(x_test, embeds) ==
    [k \in 1..Len(embeds) |-> SumSquares(VecSub(x_test, embeds[k]))]

\* np.argmin: the first index holding the minimum.
NpArgminLast(dists) ==
    CHOOSE k \in 1..Len(dists) :
        /\ \A j \in 1..Len(dists) : dists[k] <= dists[j]
        /\ \A j \in (k+1)..Len(dists) : dists[k] < dists[j]
NpArgmin(dists) ==
    CHOOSE k \in 1..Len(dists) :
        /\ \A j \in 1..Len(dists) : dists[k] <= dists[j]
        /\ \A j \in 1..(k-1) : dists[j] > dists[k]

\* The NumPy equivalent of test_vq: one codebook row per test row.
NpVq(data, embeds) ==
    [r \in 1..Len(data) |-> embeds[NpArgmin(VqDists(data[r], embeds))]]

\* tflego.build_vq, output z_q: each row of x replaced by its nearest
\* codebook entry; the entries are scanned in index order and an entry
\* replaces the best one so far only when it is strictly nearer.
RECURSIVE VqNearest(_, _, _, _)
VqNearest(x, embeds, k, best) ==
    IF k > Len(embeds) THEN best
    ELSE IF SumSquares(VecSub(x, embeds[k])) < SumSquares(VecSub(x, embeds[best]))
         THEN VqNearest(x, embeds, k + 1, k)
         ELSE VqNearest(x, embeds, k + 1, best)

build_vq(x, embeds) ==
    [r \in 1..Len(x) |-> embeds[VqNearest(x[r], embeds, 2, 1)]]

VqIdle ==
    /\ vq_pc = "idle" /\ test_data = <<>> /\ tf_embeds = <<>>
    /\ tf_z_q = <<>> /\ np_z_q = <<>> /\ vq_passed = FALSE

VqInit ==
    /\ RnnIdle /\ EncIdle /\ SegIdle /\ TrainIdle /\ ScpIdle /\ LinkIdle /\ LabelIdle
    /\ vq_pc = "session"
    /\ test_data \in [1..VqRows -> VqVec]
    /\ tf_embeds \in [1..K -> VqVec]
    /\ tf_z_q = <<>>
    /\ np_z_q = <<>>
    /\ vq_passed = FALSE

\* session.run: tf_embeds = embeds.eval(); tf_z_q = z_q.eval({x: test_data})
VqSession ==
    /\ vq_pc = "session"
    /\ tf_z_q' = build_vq(test_data, tf_embeds)
    /\ vq_pc' = "numpy"
    /\ UNCHANGED <<test_data, tf_embeds, np_z_q, vq_passed, notVq>>

\* the NumPy equivalent loop
VqNumpy ==
    /\ vq_pc = "numpy"
    /\ np_z_q' = NpVq(test_data, tf_embeds)
    /\ vq_pc' = "assert"
    /\ UNCHANGED <<test_data, tf_embeds, tf_z_q, vq_passed, notVq>>

\* npt.assert_almost_equal(tf_z_q, np_z_q)
VqAssert ==
    /\ vq_pc = "assert"
    /\ vq_passed' = (tf_z_q = np_z_q)
    /\ vq_pc' = "done"
    /\ UNCHANGED <<test_data, tf_embeds, tf_z_q, np_z_q, notVq>>

VqNext == VqSession \/ VqNumpy \/ VqAssert

SpecVq == VqInit /\ [][VqNext]_vars

\* C1: after test_vq has run, every row of z_q is a codebook entry at
\* minimal Euclidean distance from its input row, the one of lowest index
\* among the entries at that distance, and equals the reference row.
VqNearestLowestIndex ==
    vq_pc = "done" =>
        /\ vq_passed
        /\ \A r \in 1..Len(test_data) :
            \E k \in 1..K :
                /\ tf_z_q[r] = tf_embeds[k]
                /\ \A j \in 1..K :
                      SumSquares(VecSub(test_data[r], tf_embeds[k]))
                          <= SumSquares(VecSub(test_data[r], tf_embeds[j]))
                /\ \A j \in 1..(k-1) :
                      SumSquares(VecSub(test_data[r], tf_embeds[j]))
                          > SumSquares(VecSub(test_data[r], tf_embeds[k]))

\* C1 witness: a finished run in which two different codebook entries are
\* both nearest to a row, and the row got the first of them.
VqTieWitness ==
    /\ vq_pc = "done"
    /\ \E r \in 1..Len(test_data) : \E j, k \in 1..K :
          /\ j < k
          /\ tf_embeds[j] # tf_embeds[k]
          /\ VqDists(test_data[r], tf_embeds)[j] = VqDists(test_data[r], tf_embeds)[k]
          /\ \A m \in 1..K : VqDists(test_data[r], tf_embeds)[j]
                                <= VqDists(test_data[r], tf_embeds)[m]
          /\ tf_z_q[r] = tf_embeds[j]
          /\ np_z_q[r] = tf_embeds[j]

(***************************************************************************)
(* Recurrent networks: the NumPy references of test_tflego.py and the      *)
(* tflego builders they are compared with.  Arrays are sequences: a batch  *)
(* is a sequence of sequences of frames, a frame a sequence of integers, a *)
(* weight matrix a sequence of rows.  tanh is modelled by the saturating   *)
(* odd function Tanh (tanh(0) = 0, monotone, bounded).                     *)
(***************************************************************************)
MaxLength == 2
NData == 2
MaxLayers == 2
Sat == 2

Zeros(n) == [d \in 1..n |-> 0]

Tanh(v) == IF v > Sat THEN Sat ELSE IF v < -Sat THEN -Sat ELSE v

\* np.dot(v, W): entry j is the sum over i of v[i] * W[i][j].
RECURSIVE DotColumn(_, _, _, _)
DotColumn(v, W, j, n) ==
    IF n = 0 THEN 0 ELSE DotColumn(v, W, j, n - 1) + v[n] * W[n][j]

NpDot(v, W) == [j \in 1..Len(W[1]) |-> DotColumn(v, W, j, Len(v))]

np_linear(v, W, b) ==
    LET d == NpDot(v, W) IN [j \in 1..Len(d) |-> d[j] + b[j]]

\* np_rnn's inner loop over one sequence: the list of cur_state values of
\* its first n steps, starting from prev_state = zeros.
RECURSIVE NpRnnStates(_, _, _, _)
NpRnnStates(cur_x_sequence, W, b, n) ==
    IF n = 0 THEN <<>>
    ELSE LET Step(sofar) ==
                 LET prev_state == IF n = 1 THEN Zeros(Len(W[1])) ELSE sofar[n - 1]
                     pre == np_linear(cur_x_sequence[n] \o prev_state, W, b)
                 IN Append(sofar, [j \in 1..Len(pre) |-> Tanh(pre[j])])
         IN Once(NpRnnStates(cur_x_sequence, W, b, n - 1), Step)

\* np_rnn with the slice x[i_data, :x_lengths[i_data], :] left out: every
\* padded frame is pushed through the recurrence too.
np_rnn_noslice(data, x_lengths, W, b, maxlength) ==
    [i_data \in 1..Len(data) |-> NpRnnStates(data[i_data], W, b, maxlength)]
np_rnn(data, x_lengths, W, b, maxlength) ==
    [i_data \in 1..Len(data) |->
        LET cur_x_sequence == SubSeq(data[i_data], 1, x_lengths[i_data])
            Outputs(states) ==
                [t \in 1..maxlength |->
                    IF t <= Len(cur_x_sequence) THEN states[t]
                    ELSE Zeros(Len(W[1]))]
        IN Once(NpRnnStates(cur_x_sequence, W, b, Len(cur_x_sequence)), Outputs)]

\* np_multi_rnn: for W, b in zip(weights, biases): x = np_rnn(x, ...).
\* `layers` is the zipped list; n is the number of layers already applied.
RECURSIVE NpMultiRnnUpTo(_, _, _, _, _)
NpMultiRnnUpTo(data, x_lengths, layers, maxlength, n) ==
    IF n = 0 THEN data
    ELSE np_rnn(NpMultiRnnUpTo(data, x_lengths, layers, maxlength, n - 1),
                x_lengths, layers[n].W, layers[n].b, maxlength)

\* np_multi_rnn whose loop stops one layer early.
np_multi_rnn_short(data, x_lengths, layers, maxlength) ==
    NpMultiRnnUpTo(data, x_lengths, layers, maxlength, Len(layers) - 1)
np_multi_rnn(data, x_lengths, layers, maxlength) ==
    NpMultiRnnUpTo(data, x_lengths, layers, maxlength, Len(layers))

\* The basic RNN cell of the tensor framework: tanh([x, h] W + b).
BasicRnnCell(cur_x, h, W, b) ==
    LET Activation(pre) == [j \in 1..Len(pre) |-> Tanh(pre[j])]
    IN Once(np_linear(cur_x \o h, W, b), Activation)

\* The framework's dynamic RNN over a padded batch, time step by time step:
\* the batch of states after each of the first t steps.  A sequence that
\* has ended keeps its state.
RECURSIVE DynamicRnnStates(_, _, _, _, _)
DynamicRnnStates(data, x_lengths, W, b, t) ==
    IF t = 0 THEN <<>>
    ELSE LET Step(sofar) ==
                 LET prev == IF t = 1
                             THEN [i \in 1..Len(data) |-> Zeros(Len(W[1]))]
                             ELSE sofar[t - 1]
                 IN Append(sofar, [i \in 1..Len(data) |->
                                      IF t <= x_lengths[i]
                                      THEN BasicRnnCell(data[i][t], prev[i], W, b)
                                      ELSE prev[i]])
         IN Once(DynamicRnnStates(data, x_lengths, W, b, t - 1), Step)

\* tflego.build_rnn: (outputs, states) of one recurrent layer; a sequence
\* that has ended emits zeros.
build_rnn(data, x_lengths, W, b) ==
    LET T == Len(data[1])
        Result(st) ==
            [outputs |-> [i \in 1..Len(data) |-> [t \in 1..T |->
                            IF t <= x_lengths[i] THEN st[t][i]
                            ELSE Zeros(Len(W[1]))]],
             states |-> st[T]]
    IN Once(DynamicRnnStates(data, x_lengths, W, b, T), Result)

\* tflego.build_multi_rnn: one build_rnn per hidden size, each fed the
\* outputs of the one before; returns the last layer's (outputs, states).
RECURSIVE build_multi_rnn(_, _, _)
build_multi_rnn(data, x_lengths, layers) ==
    IF Len(layers) = 1
    THEN build_rnn(data, x_lengths, layers[1].W, layers[1].b)
    ELSE build_multi_rnn(
             build_rnn(data, x_lengths, layers[1].W, layers[1].b).outputs,
             x_lengths, Tail(layers))

\* Inputs.  Frames have n_input = 2 features.
Frames == {<<0, 1>>, <<1, -1>>}
ZeroFrame == <<0, 0>>

\* Layer parameters for an input of n_in features; the hidden size is the
\* width of W, W has n_in + hidden rows.
LayerParams(n_in) ==
    IF n_in = 2
    THEN { [W |-> <<<<1>>, <<-1>>, <<-1>>>>, b |-> <<1>>],
           [W |-> <<<<1, 0>>, <<0, 1>>, <<1, -1>>, <<-1, 1>>>>, b |-> <<0, 1>>] }
    ELSE { [W |-> <<<<2>>, <<-1>>>>, b |-> <<1>>],
           [W |-> <<<<1, -1>>, <<1, 1>>, <<0, 1>>>>, b |-> <<1, 0>>] }

Hidden(layer) == Len(layer.W[1])

\* Lists of 1..MaxLayers layers whose shapes chain from n_input = 2.
RECURSIVE LayerLists(_, _)
LayerLists(n_in, n) ==
    IF n = 0 THEN {<<>>}
    ELSE {<<>>} \cup
         UNION { { <<p>> \o rest : rest \in LayerLists(Hidden(p), n - 1) }
                 : p \in LayerParams(n_in) }

\* test_data[i_data, :length, :] = randn(length, n_input); the rest of
\* the row is `pad` (zeros in the tests).
Padded(seq, pad) ==
    [t \in 1..MaxLength |-> IF t <= Len(seq) THEN seq[t] ELSE pad]

FrameSeqs == UNION { [1..l -> Frames] : l \in 1..MaxLength }

(***************************************************************************)
(* test_rnn                                                                *)
(***************************************************************************)
RnnInit ==
    /\ VqIdle /\ EncIdle /\ SegIdle /\ TrainIdle /\ ScpIdle /\ LinkIdle /\ LabelIdle
    /\ rnn_pc = "session"
    /\ \E seqs \in [1..NData -> FrameSeqs], pad \in {ZeroFrame, <<1, -1>>} :
          /\ rnn_data = [i \in 1..NData |-> Padded(seqs[i], pad)]
          /\ lengths = [i \in 1..NData |-> Len(seqs[i])]
    /\ params \in { <<p>> : p \in LayerParams(2) }
    /\ tf_output = <<>>
    /\ np_output = <<>>
    /\ rnn_passed = FALSE

\* tf_output = rnn_outputs.eval({x: test_data, x_lengths: lengths})
RnnSession ==
    /\ rnn_pc = "session"
    /\ tf_output' = build_rnn(rnn_data, lengths, params[1].W, params[1].b).outputs
    /\ rnn_pc' = "numpy"
    /\ UNCHANGED <<rnn_data, lengths, params, np_output, rnn_passed, notRnn>>

\* np_output = np_rnn(test_data, lengths, W, b, n_maxlength)
RnnNumpy ==
    /\ rnn_pc = "numpy"
    /\ np_output' = np_rnn(rnn_data, lengths, params[1].W, params[1].b, MaxLength)
    /\ rnn_pc' = "assert"
    /\ UNCHANGED <<rnn_data, lengths, params, tf_output, rnn_passed, notRnn>>

\* npt.assert_almost_equal(tf_output, np_output, decimal=5)
RnnAssert ==
    /\ rnn_pc = "assert"
    /\ rnn_passed' = (tf_output = np_output)
    /\ rnn_pc' = "done"
    /\ UNCHANGED <<rnn_data, lengths, params, tf_output, np_output, notRnn>>

RnnNext == RnnSession \/ RnnNumpy \/ RnnAssert

SpecRnn == RnnInit /\ [][RnnNext]_vars

\* The recurrence of one sequence on its own: its valid frames alone, as a
\* batch of one of exactly that length.
AloneOutputs(i) ==
    LET valid == SubSeq(rnn_data[i], 1, lengths[i])
    IN build_rnn(<<valid>>, <<lengths[i]>>, params[1].W, params[1].b).outputs[1]

\* C4: after test_rnn has run, the build_rnn output of every sequence is
\* the zero vector at every step t >= x_lengths[i], and at the earlier
\* steps it is the recurrence started from a zero state on that sequence's
\* valid frames alone (no other sequence, no padding); it equals np_rnn.
RnnLengthMasking ==
    rnn_pc = "done" =>
        /\ rnn_passed
        /\ \A i \in 1..NData : \A t \in 1..MaxLength :
              IF t > lengths[i]
              THEN tf_output[i][t] = Zeros(Hidden(params[1]))
              ELSE /\ tf_output[i][t] = AloneOutputs(i)[t]
                   /\ tf_output[i][t] =
                        NpRnnStates(rnn_data[i], params[1].W, params[1].b, t)[t]

\* C4 witness: a finished run with a short sequence whose padding is not
\* zero and whose last valid state is not zero, next to a longer sequence.
RnnMaskingWitness ==
    /\ rnn_pc = "done"
    /\ \E i, j \in 1..NData :
          /\ lengths[i] < MaxLength
          /\ lengths[j] > lengths[i]
          /\ rnn_data[i][MaxLength] # ZeroFrame
          /\ tf_output[i][lengths[i]] # Zeros(Hidden(params[1]))
          /\ tf_output[i][MaxLength] = Zeros(Hidden(params[1]))
          /\ tf_output[j][MaxLength] # Zeros(Hidden(params[1]))

(***************************************************************************)
(* test_multi_rnn                                                          *)
(***************************************************************************)
MultiInit ==
    /\ VqIdle /\ EncIdle /\ SegIdle /\ TrainIdle /\ ScpIdle /\ LinkIdle /\ LabelIdle
    /\ rnn_pc = "session"
    /\ \E seqs \in [1..NData -> FrameSeqs] :
          /\ rnn_data = [i \in 1..NData |-> Padded(seqs[i], ZeroFrame)]
          /\ lengths = [i \in 1..NData |-> Len(seqs[i])]
    /\ params \in LayerLists(2, MaxLayers) \ {<<>>}
    /\ tf_output = <<>>
    /\ np_output = <<>>
    /\ rnn_passed = FALSE

\* tf_output = rnn_outputs.eval({x: test_data, x_lengths: lengths})
MultiSession ==
    /\ rnn_pc = "session"
    /\ tf_output' = build_multi_rnn(rnn_data, lengths, params).outputs
    /\ rnn_pc' = "numpy"
    /\ UNCHANGED <<rnn_data, lengths, params, np_output, rnn_passed, notRnn>>

\* np_output = np_multi_rnn(test_data, lengths, [W_0, W_1], [b_0, b_1], n_maxlength)
MultiNumpy ==
    /\ rnn_pc = "numpy"
    /\ np_output' = np_multi_rnn(rnn_data, lengths, params, MaxLength)
    /\ rnn_pc' = "assert"
    /\ UNCHANGED <<rnn_data, lengths, params, tf_output, rnn_passed, notRnn>>

\* npt.assert_almost_equal(tf_output, np_output, decimal=5)
MultiAssert ==
    /\ rnn_pc = "assert"
    /\ rnn_passed' = (tf_output = np_output)
    /\ rnn_pc' = "done"
    /\ UNCHANGED <<rnn_data, lengths, params, tf_output, np_output, notRnn>>

MultiNext == MultiSession \/ MultiNumpy \/ MultiAssert

SpecMultiRnn == MultiInit /\ [][MultiNext]_vars

\* C6: after test_multi_rnn has run, the build_multi_rnn output is the
\* output of the last of a chain of single-layer RNNs, layer j fed the full
\* output sequence of layer j-1 and the same x_lengths; it equals
\* np_multi_rnn, for every number of layers.
MultiRnnIsComposition ==
    rnn_pc = "done" =>
        /\ rnn_passed
        /\ LET chain[j \in 0..Len(params)] ==
                   IF j = 0 THEN rnn_data
                   ELSE build_rnn(chain[j - 1], lengths,
                                  params[j].W, params[j].b).outputs
           IN tf_output = chain[Len(params)]

\* C6 witness: a finished run of at least two layers whose output differs
\* from the first layer's output and from the second layer run on the input.
MultiRnnWitness ==
    /\ rnn_pc = "done"
    /\ Len(params) >= 2
    /\ tf_output # build_rnn(rnn_data, lengths, params[1].W, params[1].b).outputs
    /\ \E i \in 1..NData : lengths[i] < MaxLength

(***************************************************************************)
(* test_encdec_lazydynamic and test_encdec_lazydynamic_masked_loss.        *)
(* The losses are exact rationals <<numerator, denominator>> in lowest     *)
(* terms, so that the two ways of averaging can be compared.               *)
(***************************************************************************)
RECURSIVE Gcd(_, _)
Gcd(a, b) == IF b = 0 THEN a ELSE Gcd(b, a % b)

RNorm(n, d) == LET g == Gcd(n, d) IN <<n \div g, d \div g>>

RAdd(p, q) == RNorm(p[1] * q[2] + q[1] * p[2], p[2] * q[2])

RDivInt(p, k) == RNorm(p[1], p[2] * k)

RECURSIVE RSum(_)
RSum(s) == IF s = <<>> THEN <<0, 1>> ELSE RAdd(Head(s), RSum(Tail(s)))

\* np_encdec_lazydynamic, encoder states: encoder_output[i_data, l - 1, :].
NpEncoderStatesLastStep(encoder_output, x_lengths) ==
    [i_data \in 1..Len(x_lengths) |->
        encoder_output[i_data][Len(encoder_output[i_data])]]
NpEncoderStates(encoder_output, x_lengths) ==
    [i_data \in 1..Len(x_lengths) |-> encoder_output[i_data][x_lengths[i_data]]]

\* np.reshape(np.repeat(encoder_states, maxlength, axis=0),
\*            [-1, maxlength, n_hidden])
NpRepeatReshape(encoder_states, maxlength) ==
    LET repeated == [k \in 1..(Len(encoder_states) * maxlength) |->
                        encoder_states[((k - 1) \div maxlength) + 1]]
    IN [i \in 1..Len(encoder_states) |->
           [t \in 1..maxlength |-> repeated[(i - 1) * maxlength + t]]]

\* np_encdec_lazydynamic, final linear layer: decoder_output_linear (zeros
\* outside the valid steps).
NpDecoderLinearAllSteps(decoder_output, x_lengths, W_output, b_output) ==
    [i_data \in 1..Len(decoder_output) |->
        [t \in 1..Len(decoder_output[i_data]) |->
            np_linear(decoder_output[i_data][t], W_output, b_output)]]
NpDecoderLinear(decoder_output, x_lengths, W_output, b_output) ==
    [i_data \in 1..Len(decoder_output) |->
        [t \in 1..Len(decoder_output[i_data]) |->
            IF t <= x_lengths[i_data]
            THEN np_linear(decoder_output[i_data][t], W_output, b_output)
            ELSE Zeros(Len(b_output))]]

\* np_encdec_lazydynamic, decoder_output_list: the valid steps only.
NpDecoderList(decoder_output, x_lengths, W_output, b_output) ==
    [i_data \in 1..Len(decoder_output) |->
        [t \in 1..x_lengths[i_data] |->
            np_linear(decoder_output[i_data][t], W_output, b_output)]]

np_encdec_lazydynamic(data, x_lengths, p, maxlength) ==
    LET Decode(encoder_states) ==
            LET Finish(decoder_output) ==
                    [encoder_states |-> encoder_states,
                     decoder_output |-> NpDecoderLinear(
                         decoder_output, x_lengths, p.W_output, p.b_output),
                     decoder_output_list |-> NpDecoderList(
                         decoder_output, x_lengths, p.W_output, p.b_output)]
            IN Once(np_rnn(NpRepeatReshape(encoder_states, maxlength),
                           x_lengths, p.W_decoder, p.b_decoder, maxlength),
                    Finish)
    IN Once(NpEncoderStates(
                np_rnn(data, x_lengths, p.W_encoder, p.b_encoder, maxlength),
                x_lengths),
            Decode)

\* tflego.build_encdec_lazydynamic: encoder_states is the encoder RNN's
\* final state; the decoder RNN is fed that state at every step; the
\* linear layer is applied at every step and its result multiplied by the
\* mask of the valid steps.  The outputs keep the padded length of x.
build_encdec_lazydynamic(data, x_lengths, p) ==
    LET T == Len(data[1])
        mask == [i \in 1..Len(data) |->
                    [t \in 1..T |-> IF t <= x_lengths[i] THEN 1 ELSE 0]]
        Decode(encoder_states) ==
            LET Finish(dec) ==
                    [encoder_states |-> encoder_states,
                     decoder_output |-> [i \in 1..Len(data) |-> [t \in 1..T |->
                         LET lin == np_linear(dec.outputs[i][t],
                                              p.W_output, p.b_output)
                         IN [d \in 1..Len(lin) |-> lin[d] * mask[i][t]]]],
                     mask |-> mask]
            IN Once(build_rnn([i \in 1..Len(data) |->
                                  [t \in 1..T |-> encoder_states[i]]],
                              x_lengths, p.W_decoder, p.b_decoder),
                    Finish)
    IN Once(build_rnn(data, x_lengths, p.W_encoder, p.b_encoder).states,
            Decode)

\* The loss of test_encdec_lazydynamic_masked_loss with the sum of the
\* squared errors divided by the padded number of steps.
MaskedLossPadded(data, decoder_output, mask) ==
    RDivInt(RSum([i \in 1..Len(data) |->
                RDivInt(RSum([t \in 1..Len(data[i]) |->
                            RNorm(SumSquares(VecSub(data[i][t], decoder_output[i][t])),
                                  Len(data[i][t]))]),
                        Len(mask[i]))]),
            Len(data))
\* tf.reduce_mean(tf.reduce_sum(tf.reduce_mean(tf.square(x - decoder_output),
\*                -1), -1) / tf.reduce_sum(mask, 1))
MaskedLoss(data, decoder_output, mask) ==
    RDivInt(RSum([i \in 1..Len(data) |->
                RDivInt(RSum([t \in 1..Len(data[i]) |->
                            RNorm(SumSquares(VecSub(data[i][t], decoder_output[i][t])),
                                  Len(data[i][t]))]),
                        SumSeq(mask[i]))]),
            Len(data))

\* mse = ((y_seq - x_seq)**2).mean() over all entries of one sequence.
NpMse(y_seq, x_seq) ==
    RNorm(SumSeq([t \in 1..Len(x_seq) |-> SumSquares(VecSub(y_seq[t], x_seq[t]))]),
          Len(x_seq) * Len(x_seq[1]))

\* np_loss = np.mean(losses)
NpLoss(test_data_list, decoder_list) ==
    RDivInt(RSum([i_data \in 1..Len(test_data_list) |->
                NpMse(decoder_list[i_data], test_data_list[i_data])]),
            Len(test_data_list))

\* test_data_list: the unpadded sequences.
TestDataList == [i \in 1..NData |-> SubSeq(rnn_data[i], 1, lengths[i])]

\* Encoder, decoder and output-layer parameters with n_input = 2 and one
\* n_hidden for both RNNs.
EncDecParams ==
    { [W_encoder |-> <<<<1>>, <<-1>>, <<-1>>>>, b_encoder |-> <<1>>,
       W_decoder |-> <<<<1>>, <<1>>>>, b_decoder |-> <<0>>,
       W_output |-> <<<<1, -1>>>>, b_output |-> <<1, 0>>],
      [W_encoder |-> <<<<1>>, <<1>>, <<1>>>>, b_encoder |-> <<0>>,
       W_decoder |-> <<<<-1>>, <<1>>>>, b_decoder |-> <<1>>,
       W_output |-> <<<<1, 1>>>>, b_output |-> <<0, 0>>],
      [W_encoder |-> <<<<1, 0>>, <<0, 1>>, <<1, -1>>, <<-1, 1>>>>,
       b_encoder |-> <<0, 1>>,
       W_decoder |-> <<<<1, 0>>, <<0, -1>>, <<1, 1>>, <<0, 1>>>>,
       b_decoder |-> <<1, 0>>,
       W_output |-> <<<<1, 0>>, <<1, 1>>>>, b_output |-> <<-1, 1>>] }

EncDecInit ==
    /\ VqIdle /\ SegIdle /\ TrainIdle /\ ScpIdle /\ LinkIdle /\ LabelIdle
    /\ rnn_pc = "session"
    /\ \E seqs \in [1..NData -> FrameSeqs] :
          /\ rnn_data = [i \in 1..NData |-> Padded(seqs[i], ZeroFrame)]
          /\ lengths = [i \in 1..NData |-> Len(seqs[i])]
    /\ params \in EncDecParams
    /\ tf_output = <<>> /\ np_output = <<>> /\ rnn_passed = FALSE
    /\ EncIdle

\* tf_encoder_states, tf_decoder_output and tf_loss evaluated in a session
\* (both tests seed the generator alike and so run on the same test data)
EncDecSession ==
    /\ rnn_pc = "session"
    /\ \E net \in {build_encdec_lazydynamic(rnn_data, lengths, params)} :
          /\ tf_encoder_states' = net.encoder_states
          /\ tf_decoder_output' = net.decoder_output
          /\ tf_mask' = net.mask
          /\ tf_loss' = MaskedLoss(rnn_data, net.decoder_output, net.mask)
    /\ rnn_pc' = "numpy"
    /\ UNCHANGED <<rnn_data, lengths, params, tf_output, np_output, rnn_passed,
                   np_encoder_states, np_decoder_output, np_decoder_list,
                   np_loss, notEncDec>>

\* np_encdec_lazydynamic(test_data, lengths, ..., n_maxlength)
EncDecNumpy ==
    /\ rnn_pc = "numpy"
    /\ \E np \in {np_encdec_lazydynamic(rnn_data, lengths, params, MaxLength)} :
          /\ np_encoder_states' = np.encoder_states
          /\ np_decoder_output' = np.decoder_output
          /\ np_decoder_list' = np.decoder_output_list
    /\ rnn_pc' = "assert"
    /\ UNCHANGED <<rnn_data, lengths, params, tf_output, np_output, rnn_passed,
                   tf_encoder_states, tf_decoder_output, tf_mask, tf_loss,
                   np_loss, notEncDec>>

\* test_encdec_lazydynamic: the two assert_almost_equal
EncDecAssert ==
    /\ rnn_pc = "assert"
    /\ rnn_passed' = (/\ tf_encoder_states = np_encoder_states
                      /\ tf_decoder_output = np_decoder_output)
    /\ rnn_pc' = "np_loss"
    /\ UNCHANGED <<rnn_data, lengths, params, tf_output, np_output, encVars,
                   notEncDec>>

\* test_encdec_lazydynamic_masked_loss: the NumPy loss
LossNumpy ==
    /\ rnn_pc = "np_loss"
    /\ np_loss' = NpLoss(TestDataList, np_decoder_list)
    /\ rnn_pc' = "assert_loss"
    /\ UNCHANGED <<rnn_data, lengths, params, tf_output, np_output, rnn_passed,
                   tf_encoder_states, tf_decoder_output, tf_mask, tf_loss,
                   np_encoder_states, np_decoder_output, np_decoder_list,
                   notEncDec>>

\* npt.assert_almost_equal(tf_loss, np_loss, decimal=5)
LossAssert ==
    /\ rnn_pc = "assert_loss"
    /\ rnn_passed' = (tf_loss = np_loss)
    /\ rnn_pc' = "done"
    /\ UNCHANGED <<rnn_data, lengths, params, tf_output, np_output, encVars,
                   notEncDec>>

EncDecNext ==
    EncDecSession \/ EncDecNumpy \/ EncDecAssert \/ LossNumpy \/ LossAssert

SpecEncDec == EncDecInit /\ [][EncDecNext]_vars

\* Squared error of one step of one sequence between the input and the
\* network's decoder output.
StepSquaredError(i, t) ==
    SumSquares(VecSub(rnn_data[i][t], tf_decoder_output[i][t]))

\* C2: after test_encdec_lazydynamic_masked_loss has run on zero-padded
\* sequences of length >= 1, the masked loss equals the NumPy loss and is
\* the mean over the sequences of each sequence's squared error averaged
\* over its own valid frames (lengths[i] * n_input entries); the padded
\* steps contribute nothing.
MaskedLossIsMeanOfOwnMse ==
    rnn_pc = "done" =>
        /\ rnn_passed
        /\ \A i \in 1..NData : \A t \in (lengths[i] + 1)..MaxLength :
              StepSquaredError(i, t) = 0
        /\ tf_loss =
              RDivInt(RSum([i \in 1..NData |->
                          RNorm(SumSeq([t \in 1..lengths[i] |-> StepSquaredError(i, t)]),
                                lengths[i] * Len(rnn_data[i][1]))]),
                      NData)

\* C2 witness: a finished loss test with sequences of different lengths, a
\* non-zero loss, and a loss that dividing by the padded length would change.
MaskedLossWitness ==
    /\ rnn_pc = "done"
    /\ \E i, j \in 1..NData : lengths[i] < lengths[j]
    /\ tf_loss[1] > 0
    /\ tf_loss # MaskedLossPadded(rnn_data, tf_decoder_output, tf_mask)

\* C3: once the network has been evaluated, encoder_states[i] is the
\* encoder RNN's output at the last valid step of sequence i (step
\* lengths[i], counted from 1), and equals the NumPy encoder state.
EncoderStateIsLastValidOutput ==
    /\ tf_encoder_states # <<>> =>
          \A enc \in {build_rnn(rnn_data, lengths,
                                params.W_encoder, params.b_encoder).outputs} :
              \A i \in 1..NData : tf_encoder_states[i] = enc[i][lengths[i]]
    /\ np_encoder_states # <<>> => tf_encoder_states = np_encoder_states

\* C3 witness: an evaluated batch with a padded sequence whose encoder
\* state differs from the encoder output at the last padded step.
EncoderStateWitness ==
    /\ np_encoder_states # <<>>
    /\ \E i \in 1..NData :
          /\ lengths[i] < MaxLength
          /\ tf_encoder_states[i] #
                build_rnn(rnn_data, lengths, params.W_encoder,
                          params.b_encoder).outputs[i][MaxLength]

\* C5: once the network has been evaluated, decoder_output at a valid step
\* is the linear layer applied to the decoder RNN run on the sequence's
\* encoder state repeated at every step, and decoder_output is exactly zero
\* at every step t >= lengths[i] (no bias of the linear layer there); it
\* equals the NumPy decoder output.
DecoderOutputMasked ==
    /\ tf_decoder_output # <<>> =>
          \A dec \in {build_rnn([i \in 1..NData |->
                                    [t \in 1..MaxLength |-> tf_encoder_states[i]]],
                                lengths, params.W_decoder,
                                params.b_decoder).outputs} :
              \A i \in 1..NData : \A t \in 1..MaxLength :
                  tf_decoder_output[i][t] =
                      IF t > lengths[i] THEN Zeros(Len(params.b_output))
                      ELSE np_linear(dec[i][t], params.W_output, params.b_output)
    /\ np_decoder_output # <<>> => tf_decoder_output = np_decoder_output

\* C5 witness: an evaluated batch with a non-zero output bias, a padded
\* step where decoder_output is zero and a valid step where it is not.
DecoderOutputWitness ==
    /\ np_decoder_output # <<>>
    /\ params.b_output # Zeros(Len(params.b_output))
    /\ \E i \in 1..NData :
          /\ lengths[i] < MaxLength
          /\ tf_decoder_output[i][MaxLength] = Zeros(Len(params.b_output))
          /\ tf_decoder_output[i][lengths[i]] # Zeros(Len(params.b_output))

(***************************************************************************)
(* get_segments_scp.main: reading the forced alignment (lines 65-90) and   *)
(* writing segments.list (lines 92-95).  A line of the alignment file is   *)
(* "utterance start end label"; times are in units of one frame shift.     *)
(***************************************************************************)
MaxLines == 4

\* utterance.replace("_", "-") on the utterance names of the model.
ReplaceUnderscore(utterance) ==
    CASE utterance = "a_1" -> "a-1"
      [] OTHER -> utterance

\* The lines an alignment file is made of: word tokens of three utterance
\* names (two of them equal once "_" is replaced) on three abutting unit
\* intervals, and one SIL and one SPN token.
WordLines ==
    [utterance : {"a_1", "a-1", "b"},
     start_token : {0, 1, 2}, end_token : {1, 2, 3}, token_label : {"w"}]
FaLines ==
    { l \in WordLines : l.end_token = l.start_token + 1 }
    \cup { [utterance |-> "a_1", start_token |-> 1, end_token |-> 2,
            token_label |-> "SIL"],
           [utterance |-> "b", start_token |-> 1, end_token |-> 2,
            token_label |-> "SPN"] }

FaFiles == UNION { [1..n -> FaLines] : n \in 0..MaxLines }

SegInit ==
    /\ VqIdle /\ RnnIdle /\ EncIdle /\ TrainIdle /\ ScpIdle /\ LinkIdle /\ LabelIdle
    /\ seg_pc = "reading"
    /\ fa_lines \in FaFiles
    /\ n_read = 0
    /\ segments = <<>>
    /\ prev_utterance = ""
    /\ prev_token_label = ""
    /\ prev_end_time = -1
    /\ start_time = -1
    /\ segments_list = <<>>

\* if token_label in ["SIL", "SPN"]: continue
IsSilence(token_label) == token_label \in {"SIL", "SPN"}

\* if prev_end_time != start_token or prev_utterance != utterance:
StartsSegment(start_token, utterance) ==
    prev_end_time # start_token \/ prev_utterance # utterance

\* One iteration of `for line in f` (lines 71-89).
SegReadLine ==
    /\ seg_pc = "reading"
    /\ n_read < Len(fa_lines)
    /\ n_read' = n_read + 1
    /\ LET line == fa_lines[n_read + 1]
           utterance == ReplaceUnderscore(line.utterance)
       IN IF IsSilence(line.token_label)
          THEN UNCHANGED <<segments, start_time, prev_end_time,
                           prev_token_label, prev_utterance>>
          ELSE /\ IF StartsSegment(line.start_token, utterance)
                  THEN /\ segments' =
                            IF prev_end_time # -1
                            THEN Append(segments,
                                   <<prev_utterance, start_time, prev_end_time>>)
                            ELSE segments
                       /\ start_time' = line.start_token
                  ELSE UNCHANGED <<segments, start_time>>
               /\ prev_end_time' = line.end_token
               /\ prev_token_label' = line.token_label
               /\ prev_utterance' = utterance
    /\ UNCHANGED <<seg_pc, fa_lines, segments_list, notSeg>>

\* The end of the file without line 90.
SegEndOfFileNoFlush ==
    /\ seg_pc = "reading"
    /\ n_read = Len(fa_lines)
    /\ seg_pc' = "writing"
    /\ UNCHANGED <<segments, fa_lines, n_read, prev_utterance, prev_token_label,
                   prev_end_time, start_time, segments_list, notSeg>>
\* The end of the file (line 90):
\* segments.append((prev_utterance, start_time, prev_end_time))
SegEndOfFile ==
    /\ seg_pc = "reading"
    /\ n_read = Len(fa_lines)
    /\ segments' = Append(segments, <<prev_utterance, start_time, prev_end_time>>)
    /\ seg_pc' = "writing"
    /\ UNCHANGED <<fa_lines, n_read, prev_utterance, prev_token_label,
                   prev_end_time, start_time, segments_list, notSeg>>

\* Writing segments.list (lines 92-95): one line "utt start end" per segment.
SegWriteList ==
    /\ seg_pc = "writing"
    /\ segments_list' = [k \in 1..Len(segments) |->
                            <<segments[k][1], segments[k][2], segments[k][3]>>]
    /\ seg_pc' = "written"
    /\ UNCHANGED <<fa_lines, n_read, segments, prev_utterance, prev_token_label,
                   prev_end_time, start_time, notSeg>>

SegNext == SegReadLine \/ SegEndOfFile \/ SegWriteList

SpecSeg == SegInit /\ [][SegNext]_vars

\* The non-silence tokens among the first n lines of the file, in file
\* order, with the utterance name as the segments carry it.
IsWord(line) == line.token_label # "SIL" /\ line.token_label # "SPN"

Words(n) ==
    LET kept == SelectSeq(SubSeq(fa_lines, 1, n), IsWord)
    IN [k \in 1..Len(kept) |->
           [utt |-> ReplaceUnderscore(kept[k].utterance),
            start |-> kept[k].start_token, end |-> kept[k].end_token]]

\* The tokens that do not continue the token before them: the first one,
\* and each whose start time is not the previous token's end time or whose
\* utterance is not the previous token's utterance.
RunStarts(w) ==
    { k \in 1..Len(w) :
        k = 1 \/ w[k].start # w[k - 1].end \/ w[k].utt # w[k - 1].utt }

\* The maximal runs of w in order: first and last token of each run and
\* the run's segment (utterance, start of the first, end of the last).
Runs(w) ==
    LET Table(starts) ==
            [j \in 1..Cardinality(starts) |->
                LET First(n) == CHOOSE b \in starts :
                                    Cardinality({c \in starts : c <= b}) = n
                    Row(first, last) ==
                        [first |-> first, last |-> last,
                         segment |-> <<w[first].utt, w[first].start, w[last].end>>]
                IN Row(First(j),
                       IF j = Cardinality(starts) THEN Len(w) ELSE First(j + 1) - 1)]
    IN Once(RunStarts(w), Table)

\* C8: SIL and SPN tokens are ignored; while the file is read the emitted
\* segments are the maximal runs (of abutting non-silence tokens of one
\* utterance) that have ended, the open run started where the last new
\* segment started; after the loop the emitted segments are exactly the
\* maximal runs, each (utterance, start of its first token, end of its last).
SegmentsAreMaximalRuns ==
    /\ seg_pc = "reading" =>
          \A w \in {Words(n_read)} : \A runs \in {Runs(w)} :
              IF w = <<>> THEN segments = <<>>
              ELSE /\ segments = [j \in 1..(Len(runs) - 1) |-> runs[j].segment]
                   /\ start_time = w[runs[Len(runs)].first].start
                   /\ prev_end_time = w[Len(w)].end
                   /\ prev_utterance = w[Len(w)].utt
    /\ seg_pc \in {"writing", "written"} =>
          \A w \in {Words(Len(fa_lines))} : \A runs \in {Runs(w)} :
              segments = [j \in 1..Len(runs) |-> runs[j].segment]

\* C9: for a file with at least one non-silence token, after the loop the
\* number of segments is the number of maximal runs, the j-th segment is
\* the segment of the j-th run (the order of the runs' first tokens), the
\* last run included, and every non-silence token lies in exactly one
\* emitted segment's run.
SegmentsCoverEveryToken ==
    seg_pc \in {"writing", "written"} =>
        \A w \in {Words(Len(fa_lines))} : \A runs \in {Runs(w)} :
            w # <<>> =>
                /\ Len(segments) = Len(runs)
                /\ \A k \in 1..Len(w) :
                      Cardinality({ j \in 1..Len(segments) :
                                      /\ runs[j].first <= k
                                      /\ k <= runs[j].last
                                      /\ segments[j] = runs[j].segment }) = 1

\* C9 witness: a written list of at least two segments from a file with a
\* silence line, whose last run has more than one token.
SegmentsCoverWitness ==
    /\ seg_pc = "written"
    /\ Len(segments) >= 2
    /\ \E k \in 1..Len(fa_lines) : ~IsWord(fa_lines[k])
    /\ \A w \in {Words(Len(fa_lines))} : \A runs \in {Runs(w)} :
          /\ Len(segments) = Len(runs)
          /\ runs[Len(runs)].first < runs[Len(runs)].last

\* C10: every line of segments.list names a non-empty utterance of a
\* non-silence token of the file, starts at the start time of such a token
\* and ends at the end time of such a token.
WrittenSegmentsComeFromTokens ==
    \A k \in 1..Len(segments_list) :
        \A w \in {Words(Len(fa_lines))} :
            /\ segments_list[k][1] # ""
            /\ \E a, b \in 1..Len(w) :
                  /\ w[a].utt = segments_list[k][1]
                  /\ w[a].start = segments_list[k][2]
                  /\ w[b].utt = segments_list[k][1]
                  /\ w[b].end = segments_list[k][3]

(***************************************************************************)
(* train_siamese.train_siamese: which checkpoint the validation function   *)
(* restores, during training and in the final extrinsic evaluation.        *)
(* A checkpoint file holds the number of the epoch it was saved after      *)
(* (0: not written).  The average precision and the precision-recall       *)
(* breakeven of an embedding are results of samediff.average_precision,    *)
(* drawn here from AvgPrecisions; ap_calls lists what it has returned,     *)
(* call by call.                                                           *)
(***************************************************************************)
MaxEpochs == 2
n_val_interval == 1

intermediate_model_fn == "siamese.tmp.ckpt"
model_fn == "siamese.best_val.ckpt"

AvgPrecisions == {1, 2}

\* samediff_val returning the average precision as it is.
SamediffValNotNegated(normalise, cur_ap, cur_prb) ==
    [restore |-> val_model_fn, result |-> <<cur_prb, cur_ap>>]
\* samediff_val(normalise): restores val_model_fn as it is when the call is
\* made, embeds the validation data, returns [prb, -ap].
samediff_val(normalise, cur_ap, cur_prb) ==
    [restore |-> val_model_fn, result |-> <<cur_prb, -cur_ap>>]

TrainInit ==
    /\ VqIdle /\ RnnIdle /\ EncIdle /\ SegIdle /\ ScpIdle /\ LinkIdle /\ LabelIdle
    /\ train_pc = "setup"
    /\ extrinsic_usefinal \in BOOLEAN
    /\ n_epochs \in 1..MaxEpochs
    /\ i_epoch = 0
    /\ val_model_fn = ""
    /\ restored = <<>>
    /\ saved_tmp = 0
    /\ saved_best = 0
    /\ best_val_loss = <<>>
    /\ record_dict = <<>>
    /\ ap = <<>>
    /\ ap_normalised = <<>>
    /\ val_ap_txt = <<>>
    /\ ap_calls = <<>>

\* The setup with the validation-best checkpoint as the one to restore.
TrainSetupBestVal ==
    /\ train_pc = "setup"
    /\ val_model_fn' = model_fn
    /\ train_pc' = "training"
    /\ UNCHANGED <<extrinsic_usefinal, n_epochs, i_epoch, restored, saved_tmp,
                   saved_best, best_val_loss, record_dict, ap, ap_normalised,
                   val_ap_txt, ap_calls, notTrain>>
\* val_model_fn = intermediate_model_fn (line 243), the batch iterator
TrainSetup ==
    /\ train_pc = "setup"
    /\ val_model_fn' = intermediate_model_fn
    /\ train_pc' = "training"
    /\ UNCHANGED <<extrinsic_usefinal, n_epochs, i_epoch, restored, saved_tmp,
                   saved_best, best_val_loss, record_dict, ap, ap_normalised,
                   val_ap_txt, ap_calls, notTrain>>

\* One epoch of training.train_fixed_epochs_external_val: the model is
\* saved to save_model_fn; every n_val_interval epochs the external
\* validation function is called and the model with the lowest last entry
\* of its result is saved to save_best_val_model_fn.
TrainEpoch ==
    /\ train_pc = "training"
    /\ i_epoch < n_epochs
    /\ i_epoch' = i_epoch + 1
    /\ saved_tmp' = i_epoch + 1
    /\ IF i_epoch % n_val_interval = 0
       THEN \E cur_ap \in AvgPrecisions, cur_prb \in AvgPrecisions :
              \E val \in {samediff_val(FALSE, cur_ap, cur_prb)} :
                /\ restored' = Append(restored, val.restore)
                /\ record_dict' = Append(record_dict, val.result)
                /\ ap_calls' = Append(ap_calls,
                       [normalise |-> FALSE, ap |-> cur_ap, prb |-> cur_prb])
                /\ IF best_val_loss = <<>> \/ val.result[2] < best_val_loss[2]
                   THEN /\ best_val_loss' = val.result
                        /\ saved_best' = i_epoch + 1
                   ELSE UNCHANGED <<best_val_loss, saved_best>>
       ELSE UNCHANGED <<restored, record_dict, best_val_loss, saved_best,
                        ap_calls>>
    /\ UNCHANGED <<train_pc, extrinsic_usefinal, n_epochs, val_model_fn, ap,
                   ap_normalised, val_ap_txt, notTrain>>

\* train_fixed_epochs_external_val returns; record_dict and options_dict
\* are written (lines 248-265)
TrainReturn ==
    /\ train_pc = "training"
    /\ i_epoch = n_epochs
    /\ train_pc' = "final"
    /\ UNCHANGED <<extrinsic_usefinal, n_epochs, i_epoch, val_model_fn, restored,
                   saved_tmp, saved_best, best_val_loss, record_dict, ap,
                   ap_normalised, val_ap_txt, ap_calls, notTrain>>

\* The final choice with its two branches exchanged.
FinalModelSwapped == IF extrinsic_usefinal THEN model_fn ELSE intermediate_model_fn
\* if options_dict["extrinsic_usefinal"]: val_model_fn = intermediate_model_fn
\* else: val_model_fn = model_fn   (lines 271-274)
FinalModel == IF extrinsic_usefinal THEN intermediate_model_fn ELSE model_fn

FinalSelect ==
    /\ train_pc = "final"
    /\ val_model_fn' = FinalModel
    /\ train_pc' = "final_val"
    /\ UNCHANGED <<extrinsic_usefinal, n_epochs, i_epoch, restored, saved_tmp,
                   saved_best, best_val_loss, record_dict, ap, ap_normalised,
                   val_ap_txt, ap_calls, notTrain>>

\* prb, ap = samediff_val(normalise=False); ap = -ap   (lines 275-276)
FinalVal ==
    /\ train_pc = "final_val"
    /\ \E cur_ap \in AvgPrecisions, cur_prb \in AvgPrecisions :
         \E val \in {samediff_val(FALSE, cur_ap, cur_prb)} :
            /\ restored' = Append(restored, val.restore)
            /\ ap' = -val.result[2]
            /\ ap_calls' = Append(ap_calls,
                   [normalise |-> FALSE, ap |-> cur_ap, prb |-> cur_prb])
    /\ train_pc' = "final_val_normalised"
    /\ UNCHANGED <<extrinsic_usefinal, n_epochs, i_epoch, val_model_fn, saved_tmp,
                   saved_best, best_val_loss, record_dict, ap_normalised,
                   val_ap_txt, notTrain>>

\* prb_normalised, ap_normalised = samediff_val(normalise=True);
\* ap_normalised = -ap_normalised   (lines 277-278)
FinalValNormalised ==
    /\ train_pc = "final_val_normalised"
    /\ \E cur_ap \in AvgPrecisions, cur_prb \in AvgPrecisions :
         \E val \in {samediff_val(TRUE, cur_ap, cur_prb)} :
            /\ restored' = Append(restored, val.restore)
            /\ ap_normalised' = -val.result[2]
            /\ ap_calls' = Append(ap_calls,
                   [normalise |-> TRUE, ap |-> cur_ap, prb |-> cur_prb])
    /\ train_pc' = "write_ap"
    /\ UNCHANGED <<extrinsic_usefinal, n_epochs, i_epoch, val_model_fn, saved_tmp,
                   saved_best, best_val_loss, record_dict, ap, val_ap_txt,
                   notTrain>>

\* val_ap.txt: str(ap), str(ap_normalised)   (lines 281-285)
WriteAp ==
    /\ train_pc = "write_ap"
    /\ val_ap_txt' = <<Str(ap), Str(ap_normalised)>>
    /\ train_pc' = "done"
    /\ UNCHANGED <<extrinsic_usefinal, n_epochs, i_epoch, val_model_fn, restored,
                   saved_tmp, saved_best, best_val_loss, record_dict, ap,
                   ap_normalised, ap_calls, notTrain>>

TrainNext ==
    \/ TrainSetup \/ TrainEpoch \/ TrainReturn \/ FinalSelect \/ FinalVal
    \/ FinalValNormalised \/ WriteAp

SpecTrain == TrainInit /\ [][TrainNext]_vars

\* C7: each of the two final calls of the validation function restores the
\* intermediate checkpoint siamese.tmp.ckpt when extrinsic_usefinal is set
\* and the validation-best checkpoint siamese.best_val.ckpt when it is not.
FinalEvalRestoresChosenModel ==
    \A chosen \in {IF extrinsic_usefinal THEN "siamese.tmp.ckpt"
                   ELSE "siamese.best_val.ckpt"} :
        /\ train_pc = "final_val_normalised" =>
              restored[Len(restored)] = chosen
        /\ train_pc \in {"write_ap", "done"} =>
              /\ restored[Len(restored)] = chosen
              /\ restored[Len(restored) - 1] = chosen

\* C7 witness: a finished run without extrinsic_usefinal whose two final
\* calls restored the validation-best checkpoint, saved after an earlier
\* epoch than the final model.
FinalEvalWitness ==
    /\ train_pc = "done"
    /\ ~extrinsic_usefinal
    /\ saved_best < saved_tmp
    /\ restored[Len(restored)] = model_fn
    /\ restored[Len(restored) - 1] = model_fn
    /\ restored[1] = intermediate_model_fn


\* C15: while train_fixed_epochs_external_val is running the checkpoint to
\* restore is siamese.tmp.ckpt and every call of the validation function
\* made by it has restored siamese.tmp.ckpt, whatever extrinsic_usefinal
\* is; the checkpoint to restore is siamese.best_val.ckpt only after the
\* training call has returned.
TrainingValRestoresIntermediate ==
    /\ train_pc = "training" => val_model_fn = "siamese.tmp.ckpt"
    /\ Len(restored) >= Len(record_dict)
    /\ \A i \in 1..Len(record_dict) : restored[i] = "siamese.tmp.ckpt"
    /\ train_pc \in {"training", "final"} => Len(restored) = Len(record_dict)
    /\ val_model_fn = "siamese.best_val.ckpt" =>
          /\ train_pc \in {"final_val", "final_val_normalised", "write_ap", "done"}
          /\ i_epoch = n_epochs

\* C15 witness: training is still running, without extrinsic_usefinal, two
\* validation calls have restored siamese.tmp.ckpt, and the validation-best
\* checkpoint is an older model than the intermediate one.
TrainingValWitness ==
    /\ train_pc = "training"
    /\ ~extrinsic_usefinal
    /\ restored = <<intermediate_model_fn, intermediate_model_fn>>
    /\ saved_best = 1
    /\ saved_tmp = 2

\* C16: the final evaluation holds the average precision of its first call
\* (un-normalised) in ap and of its second call (normalised) in
\* ap_normalised, each with the sign samediff.average_precision gave it,
\* and val_ap.txt is exactly these two numbers in this order.
ValApHasOriginalSign ==
    \A n \in {Len(ap_calls)} :
        /\ train_pc = "final_val_normalised" =>
              /\ ~ap_calls[n].normalise
              /\ ap = ap_calls[n].ap
        /\ train_pc \in {"write_ap", "done"} =>
              /\ ~ap_calls[n - 1].normalise
              /\ ap_calls[n].normalise
              /\ ap = ap_calls[n - 1].ap
              /\ ap_normalised = ap_calls[n].ap
        /\ train_pc = "done" =>
              /\ Len(val_ap_txt) = 2
              /\ val_ap_txt[1][1] # "-"
              /\ val_ap_txt[2][1] # "-"
              /\ ParseInt(val_ap_txt[1]) = ap_calls[n - 1].ap
              /\ ParseInt(val_ap_txt[2]) = ap_calls[n].ap
        /\ train_pc # "done" => val_ap_txt = <<>>

\* C16 witness: val_ap.txt written with two different average precisions,
\* the un-normalised one first.
ValApWitness ==
    /\ train_pc = "done"
    /\ val_ap_txt = <<Str(2), Str(1)>>
    /\ ap_calls[Len(ap_calls) - 1] = [normalise |-> FALSE, ap |-> 2, prb |-> 1]
    /\ ap_calls[Len(ap_calls)].normalise
    /\ ap_calls[Len(ap_calls)].ap = 1

(***************************************************************************)
(* get_segments_scp.main: writing the SCP file (lines 112-127) from the    *)
(* segments and the frame counts that HList reports (lines 97-110).        *)
(* A time of this part is a whole number of half frame shifts (1/200 s),   *)
(* so that float(time) * 100 can fall half way between two frames.         *)
(***************************************************************************)
MaxTime == 3
MaxSegments == 2

ScpUtterances == {"a-1", "b"}

\* int(round(float(time) * 100)): round() of the interpreter the scripts
\* are written for rounds half away from zero.
Round100(time) ==
    IF time >= 0 THEN (time + 1) \div 2 ELSE -((1 - time) \div 2)

\* if end > lengths[basename]: if start > lengths[basename]: ... continue
ScpSkips(start, end, n_frames) == end > n_frames /\ start > n_frames

\* The end frame without the truncation.
ScpEndNotTruncated(end, n_frames) == end
\* if end > lengths[basename]: end = lengths[basename] - 1
ScpEnd(end, n_frames) == IF end > n_frames THEN n_frames - 1 ELSE end

\* segment_label + "=" + path.join(feat_dir, basename + ".fbank") + "[" +
\* str(start) + "," + str(end) + "]\n", as the fields it is made of.
ScpLine(basename, start, end) ==
    [segment_label |-> <<basename, Format06d(start), Format06d(end)>>,
     fbank |-> basename,
     range |-> <<Str(start), Str(end)>>]

\* The segments that can be in the list: a token of the alignment ends no
\* earlier than it starts, and so does a run of tokens.
ScpSegments ==
    { seg \in ScpUtterances \X (0..MaxTime) \X (0..MaxTime) : seg[2] <= seg[3] }

\* The frame counts of a feature file: up to the last frame that a segment
\* of the list can name.
ScpFrameCounts == 1..Round100(MaxTime)

ScpSegmentLists == UNION { [1..n -> ScpSegments] : n \in 0..MaxSegments }

\* The state after line 110: the segments, and a frame count for every
\* feature file.  The alignment file is not part of this state.
ScpInit ==
    /\ VqIdle /\ RnnIdle /\ EncIdle /\ TrainIdle /\ LinkIdle /\ LabelIdle
    /\ seg_pc = "written"
    /\ fa_lines = <<>> /\ n_read = 0
    /\ prev_utterance = "" /\ prev_token_label = ""
    /\ prev_end_time = -1 /\ start_time = -1
    /\ segments \in ScpSegmentLists
    /\ segments_list = segments
    /\ scp_pc = "writing"
    /\ scp_lengths \in [ScpUtterances -> ScpFrameCounts]
    /\ i_segment = 0
    /\ scp_lines = <<>>
    /\ scp_warnings = <<>>

\* One iteration of `for basename, start_time, end_time in segments`
\* (lines 114-126).
ScpSegment ==
    /\ scp_pc = "writing"
    /\ i_segment < Len(segments)
    /\ LET basename == segments[i_segment + 1][1]
           start == Round100(segments[i_segment + 1][2])
           end == Round100(segments[i_segment + 1][3])
       IN IF ScpSkips(start, end, scp_lengths[basename])
          THEN /\ scp_warnings' = Append(scp_warnings, basename)
               /\ UNCHANGED scp_lines
          ELSE /\ scp_lines' = Append(scp_lines,
                      ScpLine(basename, start,
                              ScpEnd(end, scp_lengths[basename])))
               /\ UNCHANGED scp_warnings
    /\ i_segment' = i_segment + 1
    /\ UNCHANGED <<scp_pc, scp_lengths, segVars, notScp>>

\* f.close() (line 127)
ScpClose ==
    /\ scp_pc = "writing"
    /\ i_segment = Len(segments)
    /\ scp_pc' = "closed"
    /\ UNCHANGED <<scp_lengths, i_segment, scp_lines, scp_warnings, segVars,
                   notScp>>

ScpNext == ScpSegment \/ ScpClose

SpecScp == ScpInit /\ [][ScpNext]_vars

\* Frames of the k-th segment and the frame count of its feature file.
StartFrame(k) == Round100(segments[k][2])
EndFrame(k) == Round100(segments[k][3])
FrameCount(k) == scp_lengths[segments[k][1]]

\* The segments done so far for which a line was due, in segment order.
LineSegments ==
    LET due == { k \in 1..i_segment :
                   ~(StartFrame(k) > FrameCount(k) /\ EndFrame(k) > FrameCount(k)) }
    IN [j \in 1..Cardinality(due) |->
           CHOOSE k \in due : Cardinality({ c \in due : c <= k }) = j]

\* C11: the line written for a segment whose start time is not greater
\* than its end time has start frame <= end frame, in the bracketed range
\* and in the label, whatever the frame count of the feature file.
ScpRangeIsValid ==
    \A of \in {LineSegments} :
        Len(scp_lines) = Len(of) =>
            \A j \in 1..Len(of) :
                segments[of[j]][2] <= segments[of[j]][3] =>
                    /\ ParseInt(scp_lines[j].range[1])
                           <= ParseInt(scp_lines[j].range[2])
                    /\ ParseInt(scp_lines[j].segment_label[2])
                           <= ParseInt(scp_lines[j].segment_label[3])

\* C12: the segments skipped with a warning are exactly those whose start
\* frame and end frame both exceed the frame count; every other segment
\* has exactly one line, in segment order, for its own feature file, whose
\* label numbers and bracketed range are the start frame and the end
\* frame, the end being the frame count - 1 exactly when the end frame
\* exceeded the frame count.
ScpLinesFollowTheRule ==
    \A of \in {LineSegments} :
        /\ Len(scp_lines) = Len(of)
        /\ Len(scp_warnings) = i_segment - Len(of)
        /\ \A j \in 1..Len(of) :
              \A k \in {of[j]} :
                  /\ scp_lines[j].fbank = segments[k][1]
                  /\ scp_lines[j].segment_label[1] = segments[k][1]
                  /\ Len(scp_lines[j].segment_label[2]) = 6
                  /\ ParseInt(scp_lines[j].segment_label[2]) = StartFrame(k)
                  /\ ParseInt(scp_lines[j].range[1]) = StartFrame(k)
                  /\ ParseInt(scp_lines[j].segment_label[3])
                         = ParseInt(scp_lines[j].range[2])
                  /\ ParseInt(scp_lines[j].range[2])
                         = (IF EndFrame(k) > FrameCount(k)
                            THEN FrameCount(k) - 1 ELSE EndFrame(k))
        /\ scp_warnings = [j \in 1..Len(scp_warnings) |->
              segments[CHOOSE k \in (1..i_segment) \ {of[i] : i \in 1..Len(of)} :
                         Cardinality({ c \in (1..i_segment)
                                            \ {of[i] : i \in 1..Len(of)} :
                                        c <= k }) = j][1]]

\* C12 witness: a closed SCP file for which one segment was skipped with a
\* warning and the other has a line whose end frame was truncated.
ScpRuleWitness ==
    /\ scp_pc = "closed"
    /\ scp_warnings # <<>>
    /\ \E k \in 1..Len(segments) :
          /\ EndFrame(k) > FrameCount(k)
          /\ StartFrame(k) <= FrameCount(k)
    /\ Len(scp_lines) = 1

(***************************************************************************)
(* link_xitsonga_mfcc.main (lines 21-45), run again and again on one file  *)
(* system.  output_dir is "absent", a "dir" or a "file"; the entry at each *)
(* link path is "absent", a regular "file", a "dir", or a "link" to the    *)
(* NPZ file of that name; npz_files tells which NPZ files exist.           *)
(***************************************************************************)
MaxRuns == 2

LinkNames == {"train.utd.npz", "test.npz"}

\* path.isfile(link_fn): follows symbolic links, so a link counts as a file
\* when the NPZ file it points to exists.
IsFile(name) ==
    \/ links[name] = "file"
    \/ links[name] = "link" /\ npz_files[name]

LinkInit ==
    /\ VqIdle /\ RnnIdle /\ EncIdle /\ SegIdle /\ TrainIdle /\ ScpIdle /\ LabelIdle
    /\ link_pc = "makedirs"
    /\ link_run = 1
    /\ output_dir \in {"absent", "dir", "file"}
    /\ links \in [LinkNames -> {"absent", "file", "dir", "link"}]
    /\ output_dir # "dir" => \A name \in LinkNames : links[name] = "absent"
    /\ npz_files \in [LinkNames -> BOOLEAN]
    /\ created = <<>>
    /\ links_first_run = <<>>

\* if not path.isdir(output_dir): os.makedirs(output_dir)   (lines 24-25);
\* os.makedirs raises when a file is in the way.
LinkMakeDirs ==
    /\ link_pc = "makedirs"
    /\ IF output_dir = "file"
       THEN link_pc' = "error" /\ UNCHANGED output_dir
       ELSE link_pc' = "train" /\ output_dir' = "dir"
    /\ UNCHANGED <<link_run, links, npz_files, created, links_first_run, notLink>>

\* if not path.isfile(link_fn): os.symlink(npz_fn, link_fn); os.symlink
\* raises when there is an entry at link_fn, whatever it is.
LinkStep(name, next_pc) ==
    IF IsFile(name)
    THEN /\ link_pc' = next_pc
         /\ UNCHANGED <<links, created>>
    ELSE IF links[name] = "absent"
         THEN /\ links' = [links EXCEPT ![name] = "link"]
              /\ created' = Append(created, <<link_run, name>>)
              /\ link_pc' = next_pc
         ELSE /\ link_pc' = "error"
              /\ UNCHANGED <<links, created>>

\* Training: UTD discovered words (lines 27-35)
LinkTrain ==
    /\ link_pc = "train"
    /\ LinkStep("train.utd.npz", "test")
    /\ UNCHANGED <<link_run, output_dir, npz_files, links_first_run, notLink>>

\* Test (lines 37-45)
LinkTest ==
    /\ link_pc = "test"
    /\ LinkStep("test.npz", "done")
    /\ UNCHANGED <<link_run, output_dir, npz_files, links_first_run, notLink>>

\* main() has returned and the script is run once more on the file system
\* the run before has left.
LinkRunAgain ==
    /\ link_pc = "done"
    /\ link_run < MaxRuns
    /\ link_run' = link_run + 1
    /\ link_pc' = "makedirs"
    /\ links_first_run' = IF link_run = 1 THEN links ELSE links_first_run
    /\ UNCHANGED <<output_dir, links, npz_files, created, notLink>>

LinkNext == LinkMakeDirs \/ LinkTrain \/ LinkTest \/ LinkRunAgain

SpecLink == LinkInit /\ [][LinkNext]_vars

\* C13: a run after a completed first run creates no link, leaves every
\* entry as the first run left it and raises no error, also when the NPZ
\* files do not exist.
LinkSecondRunChangesNothing ==
    link_run >= 2 =>
        /\ link_pc # "error"
        /\ links = links_first_run
        /\ \A i \in 1..Len(created) : created[i][1] = 1

(***************************************************************************)
(* train_siamese.train_siamese: converting the training labels to integers *)
(* (lines 145-153).  A label is the sequence of its character codes, and   *)
(* sorted() orders labels as Python orders strings: lexicographically.     *)
(***************************************************************************)
MaxItems == 3

TrainLabels == {<<1>>, <<1, 2>>, <<2>>, <<2, 1>>}

Range(seq) == { seq[i] : i \in 1..Len(seq) }

\* u < v on strings
RECURSIVE LexLess(_, _)
LexLess(u, v) ==
    IF u = <<>> THEN v # <<>>
    ELSE IF v = <<>> THEN FALSE
    ELSE IF u[1] # v[1] THEN u[1] < v[1]
    ELSE LexLess(Tail(u), Tail(v))

\* sorted(...) of a collection of distinct labels
RECURSIVE Sorted(_)
Sorted(S) ==
    IF S = {} THEN <<>>
    ELSE LET least == CHOOSE l \in S : \A m \in S \ {l} : LexLess(l, m)
         IN <<least>> \o Sorted(S \ {least})

\* The ids counted from one.
EnumerateFromOne(labels) ==
    [label \in Range(labels) |-> CHOOSE i \in 1..Len(labels) : labels[i] = label]
\* for i, label in enumerate(...): label_to_id[label] = i
Enumerate(labels) ==
    [label \in Range(labels) |->
        (CHOOSE i \in 1..Len(labels) : labels[i] = label) - 1]

LabelInit ==
    /\ VqIdle /\ RnnIdle /\ EncIdle /\ SegIdle /\ TrainIdle /\ ScpIdle /\ LinkIdle
    /\ label_pc = "set"
    /\ train_labels \in UNION { [1..n -> TrainLabels] : n \in 0..MaxItems }
    /\ train_label_set = <<>>
    /\ label_to_id = <<>>
    /\ train_y = <<>>

\* train_label_set = list(set(train_labels)): the distinct labels, in the
\* order the set yields them, which can be any order.
LabelSet ==
    /\ label_pc = "set"
    /\ \E order \in [1..Cardinality(Range(train_labels)) -> Range(train_labels)] :
          /\ Range(order) = Range(train_labels)
          /\ train_label_set' = order
    /\ label_pc' = "to_id"
    /\ UNCHANGED <<train_labels, label_to_id, train_y, notLabel>>

\* label_to_id = {}; for i, label in enumerate(sorted(train_label_set)): ...
LabelToId ==
    /\ label_pc = "to_id"
    /\ label_to_id' = Enumerate(Sorted(Range(train_label_set)))
    /\ label_pc' = "train_y"
    /\ UNCHANGED <<train_labels, train_label_set, train_y, notLabel>>

\* train_y = []; for label in train_labels: train_y.append(label_to_id[label])
LabelTrainY ==
    /\ label_pc = "train_y"
    /\ train_y' = [k \in 1..Len(train_labels) |-> label_to_id[train_labels[k]]]
    /\ label_pc' = "done"
    /\ UNCHANGED <<train_labels, train_label_set, label_to_id, notLabel>>

LabelNext == LabelSet \/ LabelToId \/ LabelTrainY

SpecLabel == LabelInit /\ [][LabelNext]_vars

\* C14: the distinct training labels are mapped one-to-one onto 0..n-1 in
\* sorted label order, train_y has one entry per training item in item
\* order, and two items have the same id exactly when they have the same
\* label.
LabelIdsAreOneToOne ==
    label_pc = "done" =>
        /\ DOMAIN label_to_id = Range(train_labels)
        /\ { label_to_id[l] : l \in DOMAIN label_to_id }
               = 0..(Cardinality(Range(train_labels)) - 1)
        /\ \A l, m \in DOMAIN label_to_id :
              LexLess(l, m) <=> label_to_id[l] < label_to_id[m]
        /\ Len(train_y) = Len(train_labels)
        /\ \A i \in 1..Len(train_labels) :
              train_y[i] = label_to_id[train_labels[i]]
        /\ \A i, j \in 1..Len(train_labels) :
              train_y[i] = train_y[j] <=> train_labels[i] = train_labels[j]

\* C14 witness: a finished conversion of three items with a repeated label
\* and a second label, where the set yielded the labels out of sorted order.
LabelIdsWitness ==
    /\ label_pc = "done"
    /\ Len(train_labels) = 3
    /\ Cardinality(Range(train_labels)) = 2
    /\ train_labels[1] = train_labels[3]
    /\ LexLess(train_label_set[2], train_label_set[1])
    /\ train_y = <<1, 0, 1>>

====
